---- MODULE Spec2Model ----
(***************************************************************************)
(* DeepLIO: the KITTI dataset classes (deeplio/datasets/kitti.py) and the  *)
(* LiDAR feature networks (deeplio/models/nets/lidar_feat_nets.py).        *)
(*                                                                         *)
(* Python values are kept as they are in the code: indices are 0-based     *)
(* Python indices, a Python list is a TLA+ sequence whose element p (from  *)
(* 0) is at position p + 1.                                                *)
(***************************************************************************)
EXTENDS Integers, Sequences, FiniteSets, TLC

VARIABLES
    transform,          \* Kitti.transform
    seq_size,           \* Kitti.seq_size (ds_config['sequence-size'])
    length_each_drive,  \* Kitti.length_each_drive: len(ds) of every registered drive
    timestamps_velo,    \* per drive: KittiRawData.timestamps_velo
    timestamps_imu,     \* per drive: KittiRawData.timestamps_imu
    bins,               \* Kitti.bins: [bin_start, bin_end] per drive
    length,             \* Kitti.length
    images,             \* Kitti.images: the buffer of seq_size slots
    pc,                 \* position of the running __getitem__ call
    index,              \* __getitem__: the argument
    idx,                \* __getitem__: drive-local index
    num_drive,          \* __getitem__: drive ordinal
    indices,            \* __getitem__: the window of frame indices
    velo_timespamps,    \* __getitem__: timestamps of the window's frames
    combinations,       \* __getitem__: the window-relative pairs
    k,                  \* __getitem__: position in the validity loop over combinations
    threads,            \* load_images: per slot "None" / "running" / "done" / "failed"
    i,                  \* load_images: counter of the start loop, then of the join loop
    result,             \* what the call gave to its caller
    images_at_call,     \* probe: the buffer as it was when the call began
    load_calls,         \* probe: get_velo_image calls made during the call
    first_done,         \* probe: the slot whose thread ended first (-1: none yet)
    checked,            \* probe: the IMU positions the validity loop found, per pair
    calls,              \* overlapping __getitem__ calls: each caller's position and locals
    oxts,               \* calc_gt_from_oxts: the argument, a list of OXTS samples
    gt_s,               \* calc_gt_from_oxts: the returned list
    gt_before,          \* probe: the list returned before the poses were moved
    gt_pc,              \* position of the ground-truth computation
    net_class,          \* the feature network's class
    net_x,              \* forward: the argument [x0, x1]
    enc_in,             \* forward: the tensors given to encoder1 and encoder2
    net_pc,             \* position of the construction or of the forward call
    timestamps,         \* BaseLidarFeatNet.timestamps (cfg_container.timestamps)
    input_shape,        \* BaseLidarFeatNet.input_shape: (c, h, w)
    fusion,             \* BaseLidarFeatNet.fusion (cfg['fusion'])
    in_channels,        \* the channels encoder1 and encoder2 were built for
    folded,             \* probe: the channels of the folded probe input
    output_shape,       \* BaseLidarFeatNet.output_shape
    disk_velo,          \* a drive on disk: velodyne_points/data, sorted
    disk_oxts,          \* a drive on disk: oxts/data, sorted
    frames,             \* KittiRawData.frames (kwargs 'frames')
    velo_files,         \* KittiRawData.velo_files
    oxts_files,         \* KittiRawData.oxts_files
    drive_stamps_velo,  \* KittiRawData.timestamps_velo of that drive
    drive_stamps_imu,   \* KittiRawData.timestamps_imu of that drive
    drive_pc            \* position of KittiRawData.__init__

vars == <<transform, seq_size, length_each_drive, timestamps_velo, timestamps_imu, bins, length,
          images, pc, index, idx, num_drive, indices, velo_timespamps, combinations,
          k, threads, i, result, images_at_call, load_calls, first_done, checked, calls,
          oxts, gt_s, gt_before, gt_pc, net_class, net_x, enc_in, net_pc,
          timestamps, input_shape, fusion, in_channels, folded, output_shape,
          disk_velo, disk_oxts, frames, velo_files, oxts_files,
          drive_stamps_velo, drive_stamps_imu, drive_pc>>

kittivars == <<transform, seq_size, length_each_drive, timestamps_velo, timestamps_imu, bins, length,
               images, pc, index, idx, num_drive, indices, velo_timespamps, combinations,
               k, threads, i, result, images_at_call, load_calls, first_done, checked, calls>>

gtvars == <<oxts, gt_s, gt_before, gt_pc>>

buildvars == <<timestamps, input_shape, fusion, in_channels, folded, output_shape>>

netvars == <<net_class, net_x, enc_in, net_pc, timestamps, input_shape, fusion,
             in_channels, folded, output_shape>>

drivevars == <<disk_velo, disk_oxts, frames, velo_files, oxts_files,
               drive_stamps_velo, drive_stamps_imu, drive_pc>>

cfgvars == <<transform, seq_size, length_each_drive, timestamps_velo, timestamps_imu, bins, length>>

callvars == <<index, idx, num_drive, indices, velo_timespamps, combinations>>

localvars == <<pc, index, idx, num_drive, indices, velo_timespamps, combinations,
               k, threads, i, result, images_at_call, load_calls, first_done, checked>>

----------------------------------------------------------------------------
(* Bounds of the model *)

MaxDrives == 2      \* drives in the configured split
MaxLen == 3         \* LiDAR frames of one drive
MaxSeq == 3         \* sequence-size
MaxPoses == 2       \* OXTS samples given to calc_gt_from_oxts
MaxChan == 2        \* channels of an input image of the feature network
MaxT == 3           \* stacked timestamps of the feature network
MaxH == 3           \* height of an input image of the feature network
MaxW == 12          \* width of an input image of the feature network

----------------------------------------------------------------------------
(* Python helpers *)

None == [none |-> TRUE]

\* list(range(a, b))
Range(a, b) == [p \in 1..(b - a) |-> a + p - 1]

\* seq[p] for a Python list / numpy array: negative p counts from the end,
\* anything outside [-n, n) raises IndexError
PyInRange(seq, p) == -Len(seq) <= p /\ p < Len(seq)

PyIndex(seq, p) == IF p >= 0 THEN seq[p + 1] ELSE seq[Len(seq) + p + 1]

\* the frame a Python index p of a drive of n frames denotes
PyFrame(n, p) == IF p < 0 THEN n + p ELSE p

----------------------------------------------------------------------------
(* Kitti.__init__: the bins *)

\* (variant: the bin's end taken one too far)
RECURSIVE BinsLoopEndOff(_, _, _)
BinsLoopEndOff(lens, n, last_bin_end) ==
    IF n > Len(lens) THEN <<>>
    ELSE LET bin_start == last_bin_end + 1
             bin_end == bin_start + lens[n]
         IN  <<<<bin_start, bin_end>>>> \o BinsLoopEndOff(lens, n + 1, bin_end)

RECURSIVE BinsLoop(_, _, _)
BinsLoop(lens, n, last_bin_end) ==
    IF n > Len(lens) THEN <<>>
    ELSE LET bin_start == last_bin_end + 1
             bin_end == bin_start + lens[n] - 1
         IN  <<<<bin_start, bin_end>>>> \o BinsLoop(lens, n + 1, bin_end)

BuildBins(lens) == BinsLoop(lens, 1, -1)

\* self.length = self.bins.flatten()[-1] + 1
TotalLength(bs) == bs[Len(bs)][2] + 1

----------------------------------------------------------------------------
(* Kitti.__getitem__: pure parts *)

\* the resolution loop: first bin with bin_start <= index <= bin_end
RECURSIVE ResolveLoop(_, _, _)
ResolveLoop(bs, ix, n) ==
    IF n > Len(bs) THEN [idx |-> -1, num_drive |-> -1]
    ELSE IF bs[n][1] <= ix /\ ix <= bs[n][2]
         THEN [idx |-> ix - bs[n][1], num_drive |-> n - 1]
         ELSE ResolveLoop(bs, ix, n + 1)

Resolve(bs, ix) == ResolveLoop(bs, ix, 1)

\* the window of frame indices; neither case applies: raise Exception
WindowRaises(len_ds, S, ix) ==
    ~(ix <= len_ds - S) /\ ~((len_ds - S) < ix /\ ix < len_ds)

Window(len_ds, S, ix) ==
    IF ix <= len_ds - S THEN Range(ix, ix + S)
    ELSE Range(len_ds - S, len_ds)

\* (variant: the pair written [y, x])
RECURSIVE CombLoopSwapped(_, _)
CombLoopSwapped(y, S) ==
    IF y >= S THEN <<>>
    ELSE [x \in 1..y |-> <<y, x - 1>>] \o CombLoopSwapped(y + 1, S)

\* [[x, y] for y in range(S) for x in range(y)]
RECURSIVE CombLoop(_, _)
CombLoop(y, S) ==
    IF y >= S THEN <<>>
    ELSE [x \in 1..y |-> <<x - 1, y>>] \o CombLoop(y + 1, S)

Combinations(S) == CombLoop(0, S)

\* (variant: the interval closed at its end)
RECURSIVE MaskLoopClosed(_, _, _, _)
MaskLoopClosed(ts, start, stop, p) ==
    IF p >= Len(ts) THEN <<>>
    ELSE (IF ts[p + 1] >= start /\ ts[p + 1] <= stop THEN <<p>> ELSE <<>>)
         \o MaskLoopClosed(ts, start, stop, p + 1)

\* np.argwhere((ts >= start) & (ts < stop)).flatten(): the positions, ascending
RECURSIVE MaskLoop(_, _, _, _)
MaskLoop(ts, start, stop, p) ==
    IF p >= Len(ts) THEN <<>>
    ELSE (IF ts[p + 1] >= start /\ ts[p + 1] < stop THEN <<p>> ELSE <<>>)
         \o MaskLoop(ts, start, stop, p + 1)

ImuMask(ts, start, stop) == MaskLoop(ts, start, stop, 0)

----------------------------------------------------------------------------
(* Images *)

\* config['channels']: the channel selection
channels == <<0, 1, 2, 4>>

\* KittiRawData.get_velo_image: the projected image of velo_files[p], one value per
\* channel [x, y, z, remission, range, range_xy]
GetVeloImage(d, p) ==
    [c \in 0..5 |-> [drive |-> d, frame |-> PyFrame(length_each_drive[d + 1], p), channel |-> c]]

\* img[:, :, self.channels]
SelectChannels(img) == [pixels |-> [c \in 1..Len(channels) |-> img[channels[c]]]]

LoadedImage(d, p) == SelectChannels(GetVeloImage(d, p))

----------------------------------------------------------------------------
(* KittiRawData.calc_gt_from_oxts. A pose is a 4x4 matrix, a tuple of rows. *)

\* np.matmul on 4x4 matrices
MatMul(A, B) ==
    [r \in 1..4 |-> [c \in 1..4 |->
        A[r][1] * B[1][c] + A[r][2] * B[2][c] + A[r][3] * B[3][c] + A[r][4] * B[4][c]]]

\* np.identity(4)
Identity4 == [r \in 1..4 |-> [c \in 1..4 |-> IF r = c THEN 1 ELSE 0]]

\* (variant: the rotation block copied, not transposed)
InvertPoseNoTranspose(T_w0) ==
    [r \in 1..4 |-> [c \in 1..4 |->
        IF r <= 3 /\ c <= 3 THEN T_w0[r][c]
        ELSE IF r <= 3
             THEN -(T_w0[r][1] * T_w0[1][4] + T_w0[r][2] * T_w0[2][4]
                    + T_w0[r][3] * T_w0[3][4])
             ELSE IF c = 4 THEN 1 ELSE 0]]

\* lines 144-148: T_w0_inv, from the rotation block R_w0 and the translation t_w0
\* of T_w0: R_w0.T in [:3, :3] and -matmul(R_w0.T, t_w0) in [:3, 3]
InvertPose(T_w0) ==
    [r \in 1..4 |-> [c \in 1..4 |->
        IF r <= 3 /\ c <= 3 THEN T_w0[c][r]
        ELSE IF r <= 3
             THEN -(T_w0[1][r] * T_w0[1][4] + T_w0[2][r] * T_w0[2][4]
                    + T_w0[3][r] * T_w0[3][4])
             ELSE Identity4[r][c]]]

CalcGtFromOxts(o) ==
    LET transformations == [n \in 1..Len(o) |-> o[n].T_w_imu]
        T_w0_inv == InvertPose(transformations[1])
    IN  [n \in 1..Len(o) |-> MatMul(T_w0_inv, transformations[n])]

\* rigid transforms: a rotation and a translation
RigidTransform(R, t) ==
    [r \in 1..4 |-> [c \in 1..4 |->
        IF r <= 3 /\ c <= 3 THEN R[r][c]
        ELSE IF r <= 3 THEN t[r]
        ELSE IF c = 4 THEN 1 ELSE 0]]

\* the identity, a quarter and a half turn about z, a quarter turn about x
Rotations ==
    { <<<<1, 0, 0>>, <<0, 1, 0>>, <<0, 0, 1>>>>,
      <<<<0, -1, 0>>, <<1, 0, 0>>, <<0, 0, 1>>>>,
      <<<<-1, 0, 0>>, <<0, -1, 0>>, <<0, 0, 1>>>>,
      <<<<1, 0, 0>>, <<0, 0, -1>>, <<0, 1, 0>>>> }

Translations == { <<0, 0, 0>>, <<1, 0, 0>>, <<-1, 2, 3>> }

Poses == {RigidTransform(R, t) : R \in Rotations, t \in Translations}

OxtsLists ==
    UNION {[1..n -> {[T_w_imu |-> T] : T \in Poses}] : n \in 1..MaxPoses}

GtIdle ==
    /\ oxts = <<>> /\ gt_s = <<>> /\ gt_before = <<>> /\ gt_pc = "off"

InitGt ==
    /\ oxts \in OxtsLists
    /\ gt_s = <<>>
    /\ gt_before = <<>>
    /\ gt_pc = "ready"

\* gt = dataset.calc_gt_from_oxts(oxts)
CalcGt ==
    /\ gt_pc = "ready"
    /\ gt_s' = CalcGtFromOxts(oxts)
    /\ gt_pc' = "done"
    /\ UNCHANGED <<oxts, gt_before>>

\* the same samples with every world pose left-composed with the pose C, given to
\* calc_gt_from_oxts again
MovePoses(C) ==
    /\ gt_pc = "done"
    /\ gt_before = <<>>
    /\ oxts' = [n \in 1..Len(oxts) |-> [T_w_imu |-> MatMul(C, oxts[n].T_w_imu)]]
    /\ gt_before' = gt_s
    /\ gt_s' = <<>>
    /\ gt_pc' = "ready"

----------------------------------------------------------------------------
(* The layers of the encoders. Here a tensor is its shape only:             *)
(* <<b, c, h, w>>, or raised when a layer rejects its input (RuntimeError). *)

\* nn.Conv2d(cin, cout, kernel_size=(kh, kw), stride=(sh, sw), padding=1)
Conv2d(cin, cout, kh, kw, sh, sw) ==
    [op |-> "conv", cin |-> cin, cout |-> cout, kh |-> kh, kw |-> kw, sh |-> sh, sw |-> sw]

\* nn.MaxPool2d(kernel_size=3, stride=(sh, sw), padding=(1, 1), ceil_mode=True)
MaxPool2d(sh, sw) ==
    [op |-> "pool", cin |-> 0, cout |-> 0, kh |-> 3, kw |-> 3, sh |-> sh, sw |-> sw]

\* nn.AdaptiveAvgPool2d((1, 1))
AdaptiveAvgPool2d ==
    [op |-> "avg", cin |-> 0, cout |-> 0, kh |-> 0, kw |-> 0, sh |-> 1, sw |-> 1]

\* the output length of a convolution over n cells padded by 1 on both sides
ConvOut(n, kern, stride) == (n + 2 - kern) \div stride + 1

\* the output length of a max pool with ceil_mode over n cells padded by 1: the last
\* window must start inside the input or its left padding
PoolOut(n, kern, stride) ==
    LET o == (n + 2 - kern + stride - 1) \div stride + 1
    IN  IF (o - 1) * stride >= n + 1 THEN o - 1 ELSE o

\* one layer applied to x = [raises, shape]
ApplyLayer(layer, x) ==
    IF x.raises THEN x
    ELSE IF layer.op = "conv"
    THEN IF \/ x.shape[2] # layer.cin
            \/ x.shape[3] + 2 < layer.kh
            \/ x.shape[4] + 2 < layer.kw
         THEN [raises |-> TRUE, shape |-> x.shape]
         ELSE [raises |-> FALSE,
               shape |-> <<x.shape[1], layer.cout,
                           ConvOut(x.shape[3], layer.kh, layer.sh),
                           ConvOut(x.shape[4], layer.kw, layer.sw)>>]
    ELSE IF layer.op = "pool"
    THEN [raises |-> FALSE,
          shape |-> <<x.shape[1], x.shape[2],
                      PoolOut(x.shape[3], layer.kh, layer.sh),
                      PoolOut(x.shape[4], layer.kw, layer.sw)>>]
    ELSE [raises |-> FALSE, shape |-> <<x.shape[1], x.shape[2], 1, 1>>]

\* the layers in the order forward applies them (relu, batch norm and the bypass
\* additions keep the shape)
RECURSIVE RunLayers(_, _, _)
RunLayers(layers, x, n) ==
    IF n > Len(layers) THEN x
    ELSE RunLayers(layers, ApplyLayer(layers[n], x), n + 1)

\* FeatureNetSimple0 built for c input channels, lines 195-240
FeatureNetSimple0(c) ==
    << Conv2d(c, 32, 3, 7, 1, 2), MaxPool2d(1, 2),
       Conv2d(32, 32, 3, 5, 1, 1), MaxPool2d(1, 2),
       Conv2d(32, 64, 3, 3, 1, 1), MaxPool2d(1, 2),
       Conv2d(64, 64, 3, 3, 1, 1), MaxPool2d(2, 2),
       Conv2d(64, 64, 3, 3, 1, 1), MaxPool2d(2, 2) >>

\* FeatureNetSimple1 built for c input channels, lines 245-315
FeatureNetSimple1(c) ==
    << Conv2d(c, 32, 5, 7, 1, 2), MaxPool2d(1, 2),
       Conv2d(32, 32, 3, 5, 1, 1), MaxPool2d(1, 2),
       Conv2d(32, 64, 3, 3, 1, 1),
       Conv2d(64, 64, 3, 3, 1, 1), MaxPool2d(1, 2),
       Conv2d(64, 128, 3, 3, 1, 1),
       Conv2d(128, 128, 3, 3, 1, 1), MaxPool2d(2, 2),
       Conv2d(128, 256, 3, 3, 1, 1), AdaptiveAvgPool2d >>

----------------------------------------------------------------------------
(* The feature networks' forward. A tensor is its shape and its elements in *)
(* row-major order.                                                         *)

\* torch.Tensor.reshape: the same elements under another shape
Reshape(x, shape) == [shape |-> shape, data |-> x.data]

NoTensor == [shape |-> <<>>, data |-> <<>>]

\* LidarPointSegFeat.forward, lines 76-84: the tensors given to the two encoders
\* (PSEncoder is outside this file; it takes the images of ImageSizes)
ForwardPointSeg(x) ==
    LET imgs_xyz0 == x[1]
        b == imgs_xyz0.shape[1]
        t == imgs_xyz0.shape[2]
        c == imgs_xyz0.shape[3]
        h == imgs_xyz0.shape[4]
        w == imgs_xyz0.shape[5]
        imgs_xyz == Reshape(imgs_xyz0, <<b, t * c, h, w>>)
        imgs_normals == Reshape(imgs_xyz, <<b, t * c, h, w>>)
    IN  [raises |-> FALSE, encoder1 |-> imgs_xyz, encoder2 |-> imgs_normals]

\* LidarSimpleFeat0.forward, lines 124-131, of a network built for images of c
\* channels (encoders of 2*c channels, lines 110-111): encoder1 is called first, and
\* encoder2 only when encoder1 has not raised
ForwardSimple0(x) ==
    LET imgs_xyz0 == x[1]
        b == imgs_xyz0.shape[1]
        t == imgs_xyz0.shape[2]
        c == imgs_xyz0.shape[3]
        h == imgs_xyz0.shape[4]
        w == imgs_xyz0.shape[5]
        imgs_xyz == Reshape(imgs_xyz0, <<b, t * c, h, w>>)
        imgs_normals == Reshape(imgs_xyz, <<b, t * c, h, w>>)
        x_feat_0 == RunLayers(FeatureNetSimple0(2 * c),
                              [raises |-> FALSE, shape |-> imgs_xyz.shape], 1)
    IN  IF x_feat_0.raises
        THEN [raises |-> TRUE, encoder1 |-> imgs_xyz, encoder2 |-> NoTensor]
        ELSE [raises |-> FALSE, encoder1 |-> imgs_xyz, encoder2 |-> imgs_normals]

\* LidarSimpleFeat1.forward, lines 168-175, likewise (encoders of lines 154-155)
ForwardSimple1(x) ==
    LET imgs_xyz0 == x[1]
        b == imgs_xyz0.shape[1]
        t == imgs_xyz0.shape[2]
        c == imgs_xyz0.shape[3]
        h == imgs_xyz0.shape[4]
        w == imgs_xyz0.shape[5]
        imgs_xyz == Reshape(imgs_xyz0, <<b, t * c, h, w>>)
        imgs_normals == Reshape(imgs_xyz, <<b, t * c, h, w>>)
        x_feat_0 == RunLayers(FeatureNetSimple1(2 * c),
                              [raises |-> FALSE, shape |-> imgs_xyz.shape], 1)
    IN  IF x_feat_0.raises
        THEN [raises |-> TRUE, encoder1 |-> imgs_xyz, encoder2 |-> NoTensor]
        ELSE [raises |-> FALSE, encoder1 |-> imgs_xyz, encoder2 |-> imgs_normals]

NetClasses == {"LidarPointSegFeat", "LidarSimpleFeat0", "LidarSimpleFeat1"}

\* the image sizes (h, w) given to forward: one too small for the first convolution
\* of FeatureNetSimple0 and FeatureNetSimple1, one that all encoders take
ImageSizes == {<<1, 1>>, <<3, 64>>}

\* the input tensors [1, 2, c, h, w] of a network whose encoders take 2*c channels,
\* every one of the 2*c images filled with one value
Tensors(c, h, w) ==
    {[shape |-> <<1, 2, c, h, w>>,
      data |-> [n \in 1..2 * c * h * w |-> d[(n - 1) \div (h * w) + 1]]] :
        d \in [1..2 * c -> 0..1]}

\* output_shape = None
NoShape == <<>>

\* the construction is not followed
BuildIdle ==
    /\ timestamps = 0 /\ input_shape = <<>> /\ fusion = "off"
    /\ in_channels = 0 /\ folded = 0
    /\ output_shape = NoShape

NetIdle ==
    /\ net_class = "off" /\ net_pc = "off"
    /\ net_x = <<NoTensor, NoTensor>>
    /\ enc_in = [encoder1 |-> NoTensor, encoder2 |-> NoTensor]
    /\ BuildIdle

InitNet ==
    /\ net_class \in NetClasses
    /\ net_pc = "ready"
    /\ net_x = <<NoTensor, NoTensor>>
    /\ enc_in = [encoder1 |-> NoTensor, encoder2 |-> NoTensor]
    /\ BuildIdle

\* forward([x0, x1]) up to the calls of encoder1 and encoder2; a RuntimeError of
\* encoder1 ends the call before encoder2 is given anything
Forward(x0, x1) ==
    /\ net_pc = "ready"
    /\ net_x' = <<x0, x1>>
    /\ LET f == IF net_class = "LidarPointSegFeat" THEN ForwardPointSeg(<<x0, x1>>)
                ELSE IF net_class = "LidarSimpleFeat0" THEN ForwardSimple0(<<x0, x1>>)
                ELSE ForwardSimple1(<<x0, x1>>)
       IN  /\ enc_in' = [encoder1 |-> f.encoder1, encoder2 |-> f.encoder2]
           /\ net_pc' = IF f.raises THEN "raised" ELSE "encoded"
    /\ UNCHANGED net_class

\* the call is over (returned or raised), the network takes the next one
ForwardReturn ==
    /\ net_pc \in {"encoded", "raised"}
    /\ net_pc' = "ready"
    /\ net_x' = <<NoTensor, NoTensor>>
    /\ enc_in' = [encoder1 |-> NoTensor, encoder2 |-> NoTensor]
    /\ UNCHANGED net_class

----------------------------------------------------------------------------
(* The construction of a feature network *)

\* the networks whose encoders are part of this source file
BuildClasses == {"LidarSimpleFeat0", "LidarSimpleFeat1"}

Fusions == {"cat", "add", "sub"}

\* LidarSimpleFeat0.forward and LidarSimpleFeat1.forward on an input of shape
\* <<b, t, c, h, w>>, lines 124-145 and 168-189: the shape of the result
ForwardShape(class, enc_c, fus, shape) ==
    LET b == shape[1]
        t == shape[2]
        c == shape[3]
        imgs_xyz == [raises |-> FALSE, shape |-> <<b, t * c, shape[4], shape[5]>>]
        encoder == IF class = "LidarSimpleFeat0" THEN FeatureNetSimple0(enc_c)
                   ELSE FeatureNetSimple1(enc_c)
        x_feat == RunLayers(encoder, imgs_xyz, 1)
        chan == IF fus = "cat" THEN 2 * x_feat.shape[2] ELSE x_feat.shape[2]
    IN  IF x_feat.raises THEN [raises |-> TRUE, shape |-> <<>>]
        ELSE [raises |-> FALSE,
              shape |-> <<b, chan * x_feat.shape[3] * x_feat.shape[4]>>]

\* BaseLidarFeatNet.__init__, lines 12-21, has run
InitBuild ==
    /\ net_class \in BuildClasses
    /\ net_pc = "init"
    /\ net_x = <<NoTensor, NoTensor>>
    /\ enc_in = [encoder1 |-> NoTensor, encoder2 |-> NoTensor]
    /\ timestamps \in 1..MaxT
    /\ input_shape \in (1..MaxChan) \X (1..MaxH) \X (1..MaxW)
    /\ fusion \in Fusions
    /\ in_channels = 0
    /\ folded = 0
    /\ output_shape = NoShape

\* lines 110-111 and 154-155: the two encoders are built for 2*c channels
BuildEncoders ==
    /\ net_pc = "init"
    /\ in_channels' = 2 * input_shape[1]
    /\ net_pc' = "encoders"
    /\ UNCHANGED <<net_class, net_x, enc_in, timestamps, input_shape, fusion, folded,
                   output_shape>>

\* lines 116 and 160 with calc_output_shape, lines 23-30: the probe forward pass on
\* an input [1, timestamps, c, h, w]; a RuntimeError of a layer leaves __init__
CalcOutputShape ==
    /\ net_pc = "encoders"
    /\ LET input1 == <<1, timestamps, input_shape[1], input_shape[2], input_shape[3]>>
           out == ForwardShape(net_class, in_channels, fusion, input1)
       IN  /\ folded' = timestamps * input_shape[1]
           /\ IF out.raises
              THEN /\ net_pc' = "raised"
                   /\ UNCHANGED output_shape
              ELSE /\ net_pc' = "ready"
                   /\ output_shape' = out.shape
    /\ UNCHANGED <<net_class, net_x, enc_in, timestamps, input_shape, fusion, in_channels>>

----------------------------------------------------------------------------
(* KittiRawData.__init__ *)

\* timestamps.txt of a sensor, one line per data file on disk, each line as the
\* nanoseconds it states: a scan every 1500 ns, an IMU sample every 700 ns
VeloStampFile(disk) == [p \in 1..Len(disk) |-> disk[p] * 1500]

ImuStampFile(disk) == [p \in 1..Len(disk) |-> disk[p] * 700]

\* line[:-4] parsed with %f: the last three digits are dropped, microseconds remain
ParseStamp(ns) == ns \div 1000

\* utils.subselect_files(files, indices)
SubselectFiles(files, idxs) == [p \in 1..Len(idxs) |-> files[idxs[p] + 1]]

\* _get_file_lists, lines 74-85: the sorted files, cut to the frames when given
FileList(disk, fr) == IF fr # None THEN SubselectFiles(disk, fr.list) ELSE disk

\* _load_timestamps, lines 111-130: every line of the file, parsed
LoadStamps(lines) == [p \in 1..Len(lines) |-> ParseStamp(lines[p])]

\* lists of distinct frame numbers below n
FrameLists(n) ==
    {f \in UNION {[1..q -> 0..n - 1] : q \in 0..n} :
        \A p, q \in 1..Len(f) : p # q => f[p] # f[q]}

DriveIdle ==
    /\ disk_velo = <<>> /\ disk_oxts = <<>> /\ frames = None
    /\ velo_files = <<>> /\ oxts_files = <<>>
    /\ drive_stamps_velo = <<>> /\ drive_stamps_imu = <<>>
    /\ drive_pc = "off"

\* a drive on disk, data files named by their number, one timestamp line per data
\* file, and the arguments of the constructor
InitDrive ==
    \E n \in 0..MaxLen :
        /\ disk_velo = Range(0, n)
        /\ \E m \in n..MaxLen : disk_oxts = Range(0, m)
        /\ frames \in {None} \cup {[list |-> f] : f \in FrameLists(n)}
        /\ velo_files = <<>> /\ oxts_files = <<>>
        /\ drive_stamps_velo = <<>> /\ drive_stamps_imu = <<>>
        /\ drive_pc = "new"

\* self._get_file_lists()
GetFileLists ==
    /\ drive_pc = "new"
    /\ oxts_files' = FileList(disk_oxts, frames)
    /\ velo_files' = FileList(disk_velo, frames)
    /\ drive_pc' = "files"
    /\ UNCHANGED <<disk_velo, disk_oxts, frames, drive_stamps_velo, drive_stamps_imu>>

\* self._load_timestamps()
LoadTimestamps ==
    /\ drive_pc = "files"
    /\ drive_stamps_imu' = LoadStamps(ImuStampFile(disk_oxts))
    /\ drive_stamps_velo' = LoadStamps(VeloStampFile(disk_velo))
    /\ drive_pc' = "ready"
    /\ UNCHANGED <<disk_velo, disk_oxts, frames, velo_files, oxts_files>>

----------------------------------------------------------------------------
(* The dataset on disk and the configuration *)

\* the configured drives' lengths: every non-empty list of at most MaxDrives drives
DriveLists == UNION {[1..n -> 0..MaxLen] : n \in 1..MaxDrives}

\* velodyne_points/timestamps.txt of a drive of n frames: frame p is taken at time p
VeloStamps(n) == [p \in 1..n |-> p - 1]

\* oxts/timestamps.txt of a drive of n frames: one IMU sample per tick, the tick
\* `gap` missing from the recording
RECURSIVE ImuStampsLoop(_, _, _)
ImuStampsLoop(n, gap, t) ==
    IF t >= n THEN <<>>
    ELSE (IF t = gap THEN <<>> ELSE <<t>>) \o ImuStampsLoop(n, gap, t + 1)

ImuStamps(n, gap) == ImuStampsLoop(n, gap, 0)

NoResult == [kind |-> "none"]

\* the transform given to Kitti.__init__: none, or a callable f
Transforms == {"None", "f"}

\* f(data): the value of the callable, whatever it is, for the sample it is given
Transform(data) == [transformed |-> data]

\* The state after Kitti.__init__: the recording of one drive misses one IMU tick
\* (none when the tick is past the drive's end), the others are complete; the
\* datasets of one drive are taken with and without a transform
InitKitti ==
    \E lens \in DriveLists, S \in 1..MaxSeq, gap \in 0..MaxLen, gd \in 1..MaxDrives :
        /\ gd <= Len(lens)
        /\ transform \in (IF Len(lens) = 1 THEN Transforms ELSE {"None"})
        /\ seq_size = S
        /\ length_each_drive = lens
        /\ timestamps_velo = [d \in 1..Len(lens) |-> VeloStamps(lens[d])]
        /\ timestamps_imu = [d \in 1..Len(lens) |->
                               ImuStamps(lens[d], IF d = gd THEN gap ELSE lens[d])]
        /\ bins = BuildBins(lens)
        /\ length = TotalLength(BuildBins(lens))
        /\ images = [s \in 1..S |-> None]
        /\ pc = "idle"
        /\ index = 0 /\ idx = -1 /\ num_drive = -1
        /\ indices = <<>> /\ velo_timespamps = <<>> /\ combinations = <<>>
        /\ k = 0 /\ i = 0
        /\ threads = <<>>
        /\ result = NoResult
        /\ images_at_call = [s \in 1..S |-> None]
        /\ load_calls = 0
        /\ first_done = -1
        /\ checked = <<>>
        /\ calls = <<>>
        /\ GtIdle /\ NetIdle /\ DriveIdle

----------------------------------------------------------------------------
(* Kitti.__getitem__ *)

\* line 269: the timestamps of the window's frames; IndexError when a frame index
\* is outside timestamps_velo
StampsRaise(d, win) ==
    \E p \in 1..Len(win) : ~PyInRange(timestamps_velo[d + 1], win[p])

WindowStamps(d, win) ==
    [p \in 1..Len(win) |-> PyIndex(timestamps_velo[d + 1], win[p])]

\* the IMU positions matched to a pair of the window
PairIdxs(d, stamps, combi) ==
    ImuMask(timestamps_imu[d + 1], stamps[combi[1] + 1], stamps[combi[2] + 1])

Finish(r) ==
    /\ result' = r
    /\ pc' = "done"

\* lines 237-276: resolve the index, choose the window, read its timestamps, list
\* the pairs
GetItem(ix) ==
    /\ pc = "idle"
    /\ index' = ix
    /\ images_at_call' = images
    /\ load_calls' = 0
    /\ first_done' = -1
    /\ checked' = <<>>
    /\ threads' = <<>>
    /\ k' = 0 /\ i' = 0
    /\ LET r == Resolve(bins, ix)
           len_ds == length_each_drive[r.num_drive + 1]
           win == Window(len_ds, seq_size, r.idx)
           stamps == WindowStamps(r.num_drive, win)
       IN  /\ idx' = r.idx
           /\ num_drive' = r.num_drive
           /\ IF r.idx < 0 \/ r.num_drive < 0
              THEN /\ Finish([kind |-> "return", value |-> None])
                   /\ UNCHANGED <<indices, velo_timespamps, combinations>>
              ELSE IF WindowRaises(len_ds, seq_size, r.idx)
              THEN /\ Finish([kind |-> "raise", exc |-> "Exception"])
                   /\ UNCHANGED <<indices, velo_timespamps, combinations>>
              ELSE IF StampsRaise(r.num_drive, win)
              THEN /\ Finish([kind |-> "raise", exc |-> "IndexError"])
                   /\ indices' = win
                   /\ UNCHANGED <<velo_timespamps, combinations>>
              ELSE /\ indices' = win
                   /\ velo_timespamps' = stamps
                   /\ combinations' = Combinations(seq_size)
                   /\ pc' = "check"
                   /\ k' = 0
                   /\ UNCHANGED result
    /\ UNCHANGED <<gtvars, netvars, drivevars, calls, cfgvars, images>>

\* (variant: a pair without IMU sample does not end the call)
CheckPairNoAbort ==
    /\ pc = "check"
    /\ k < Len(combinations)
    /\ k' = k + 1
    /\ checked' = Append(checked, PairIdxs(num_drive, velo_timespamps, combinations[k + 1]))
    /\ UNCHANGED <<pc, result>>
    /\ UNCHANGED <<gtvars, netvars, drivevars, calls, cfgvars, callvars, images, threads, i,
                   images_at_call, load_calls, first_done>>

\* lines 278-289: one turn of the validity loop
CheckPair ==
    /\ pc = "check"
    /\ k < Len(combinations)
    /\ IF Len(PairIdxs(num_drive, velo_timespamps, combinations[k + 1])) = 0
       THEN /\ Finish([kind |-> "return", value |-> [valid |-> FALSE]])
            /\ UNCHANGED <<k, checked>>
       ELSE /\ k' = k + 1
            /\ checked' = Append(checked,
                                 PairIdxs(num_drive, velo_timespamps, combinations[k + 1]))
            /\ UNCHANGED <<pc, result>>
    /\ UNCHANGED <<gtvars, netvars, drivevars, calls, cfgvars, callvars, images, threads, i, images_at_call, load_calls, first_done>>

\* line 291 and 212: the validity loop is over, load_images begins
LoadImages ==
    /\ pc = "check"
    /\ k = Len(combinations)
    /\ threads' = [s \in 1..seq_size |-> "None"]
    /\ i' = 0
    /\ pc' = "start"
    /\ UNCHANGED <<gtvars, netvars, drivevars, calls, cfgvars, callvars, images, k, result, images_at_call, load_calls, first_done, checked>>

\* lines 214-219: one turn of the start loop
StartThread ==
    /\ pc = "start"
    /\ i < seq_size
    /\ threads' = [threads EXCEPT ![i + 1] = "running"]
    /\ i' = i + 1
    /\ UNCHANGED <<gtvars, netvars, drivevars, calls, cfgvars, callvars, images, pc, k, result, images_at_call, load_calls, first_done, checked>>

\* the start loop is over, the join loop begins
StartDone ==
    /\ pc = "start"
    /\ i = seq_size
    /\ i' = 0
    /\ pc' = "join"
    /\ UNCHANGED <<gtvars, netvars, drivevars, calls, cfgvars, callvars, images, threads, k, result, images_at_call, load_calls, first_done, checked>>

\* lines 224-228: the thread of slot s loads its image and stores it
LoadImage(s) ==
    /\ s \in 1..Len(threads)
    /\ threads[s] = "running"
    /\ images' = [images EXCEPT ![s] = LoadedImage(num_drive, indices[s])]
    /\ threads' = [threads EXCEPT ![s] = "done"]
    /\ load_calls' = load_calls + 1
    /\ first_done' = IF first_done < 0 THEN s - 1 ELSE first_done
    /\ UNCHANGED <<gtvars, netvars, drivevars, calls, cfgvars, callvars, pc, k, i, result, images_at_call, checked>>

\* the thread of slot s dies of an exception raised by get_velo_image (an unreadable
\* scan file): threading reports it on stderr, nothing is stored
LoadImageFails(s) ==
    /\ s \in 1..Len(threads)
    /\ threads[s] = "running"
    /\ threads' = [threads EXCEPT ![s] = "failed"]
    /\ load_calls' = load_calls + 1
    /\ first_done' = IF first_done < 0 THEN s - 1 ELSE first_done
    /\ UNCHANGED <<gtvars, netvars, drivevars, calls, cfgvars, callvars, images, pc, k, i, result, images_at_call, checked>>

\* (variant: the join loop does not wait for the thread)
JoinThreadNoWait ==
    /\ pc = "join"
    /\ i < seq_size
    /\ i' = i + 1
    /\ UNCHANGED <<gtvars, netvars, drivevars, calls, cfgvars, callvars, images, threads, pc, k,
                   result, images_at_call, load_calls, first_done, checked>>

\* lines 221-222: one turn of the join loop; join returns once the thread has ended
JoinThread ==
    /\ pc = "join"
    /\ i < seq_size
    /\ threads[i + 1] \in {"done", "failed"}
    /\ i' = i + 1
    /\ UNCHANGED <<gtvars, netvars, drivevars, calls, cfgvars, callvars, images, threads, pc, k, result, images_at_call, load_calls, first_done, checked>>

\* load_images returns
JoinDone ==
    /\ pc = "join"
    /\ i = seq_size
    /\ pc' = "assemble"
    /\ UNCHANGED <<gtvars, netvars, drivevars, calls, cfgvars, callvars, images, threads, k, i, result, images_at_call, load_calls, first_done, checked>>

\* oxts/data file p of drive d: the packet's accelerations and angular rates
OxtsPacket(d, p) ==
    [ax |-> <<"ax", d, p>>, ay |-> <<"ay", d, p>>, az |-> <<"az", d, p>>,
     wx |-> <<"wx", d, p>>, wy |-> <<"wy", d, p>>, wz |-> <<"wz", d, p>>]

\* oxts/data file p of drive d: the world pose, the vehicle advancing one unit per
\* sample and turned a quarter about z at every other sample
OxtsPose(d, p) ==
    RigidTransform(IF p % 2 = 1 THEN <<<<0, -1, 0>>, <<1, 0, 0>>, <<0, 0, 1>>>>
                   ELSE <<<<1, 0, 0>>, <<0, 1, 0>>, <<0, 0, 1>>>>,
                   <<p, d, 0>>)

\* _load_oxts_lazy, lines 136-138: the samples of oxts_files[indices]
LoadOxtsLazy(d, idxs) ==
    [q \in 1..Len(idxs) |->
        [packet |-> OxtsPacket(d, idxs[q]), T_w_imu |-> OxtsPose(d, idxs[q])]]

\* line 312: the 6-axis reading of IMU sample p of drive d
ImuValues(d, p) ==
    LET packet == OxtsPacket(d, p)
    IN  <<packet.ax, packet.ay, packet.az, packet.wx, packet.wy, packet.wz>>

\* lines 292-321: the sample (the loop reuses the local `indices` for the IMU
\* positions of the pair, here idxs(c); the window is not read after line 291)
Sample ==
    LET n == Len(combinations)
        idxs(c) == PairIdxs(num_drive, velo_timespamps, combinations[c])
    IN  [valid |-> TRUE,
         images |-> << [c \in 1..n |-> images[combinations[c][1] + 1]],
                       [c \in 1..n |-> images[combinations[c][2] + 1]] >>,
         imu |-> [c \in 1..n |-> [q \in 1..Len(idxs(c)) |-> ImuValues(num_drive, idxs(c)[q])]],
         ground_truth |-> [c \in 1..n |-> CalcGtFromOxts(LoadOxtsLazy(num_drive, idxs(c)))],
         combinations |-> combinations]

\* lines 292-328: the sample is assembled, given to the transform when there is
\* one, and returned
Assemble ==
    /\ pc = "assemble"
    /\ Finish([kind |-> "return",
               value |-> IF transform # "None" THEN Transform(Sample) ELSE Sample])
    /\ UNCHANGED <<gtvars, netvars, drivevars, calls, cfgvars, callvars, images, threads, k, i, images_at_call, load_calls, first_done, checked>>

\* the caller takes the result and the call's locals are gone; the dataset, with
\* its buffer, is ready for the next call
Return ==
    /\ pc = "done"
    /\ pc' = "idle"
    /\ result' = NoResult
    /\ index' = 0 /\ idx' = -1 /\ num_drive' = -1
    /\ indices' = <<>> /\ velo_timespamps' = <<>> /\ combinations' = <<>>
    /\ k' = 0 /\ i' = 0
    /\ threads' = <<>>
    /\ images_at_call' = images
    /\ load_calls' = 0
    /\ first_done' = -1
    /\ checked' = <<>>
    /\ UNCHANGED <<gtvars, netvars, drivevars, calls, cfgvars, images>>

\* the indices a caller may pass: the valid ones and one on either side
CallIndices == -1..length

Next ==
    \/ \E ix \in CallIndices : GetItem(ix)
    \/ CheckPair
    \/ LoadImages
    \/ StartThread
    \/ StartDone
    \/ \E s \in 1..MaxSeq + 1 : LoadImage(s)
    \/ JoinThread
    \/ JoinDone
    \/ Assemble
    \/ Return

\* Sequential calls of __getitem__ on a dataset whose scan files are all readable
Spec == InitKitti /\ [][Next]_vars

\* The same, with scan files that may fail to load
NextFail ==
    \/ Next
    \/ \E s \in 1..MaxSeq + 1 : LoadImageFails(s)

SpecFail == InitKitti /\ [][NextFail]_vars

\* The trivial dataset the other specifications leave untouched
KittiIdle ==
    /\ transform = "None"
    /\ seq_size = 0 /\ length_each_drive = <<>>
    /\ timestamps_velo = <<>> /\ timestamps_imu = <<>>
    /\ bins = <<>> /\ length = 0 /\ images = <<>>
    /\ pc = "off"
    /\ index = 0 /\ idx = -1 /\ num_drive = -1
    /\ indices = <<>> /\ velo_timespamps = <<>> /\ combinations = <<>>
    /\ k = 0 /\ i = 0
    /\ threads = <<>>
    /\ result = NoResult
    /\ images_at_call = <<>>
    /\ load_calls = 0
    /\ first_done = -1
    /\ checked = <<>>
    /\ calls = <<>>

\* calc_gt_from_oxts on lists of samples
NextGt ==
    \/ CalcGt /\ UNCHANGED <<kittivars, netvars, drivevars>>
    \/ \E C \in Poses : MovePoses(C) /\ UNCHANGED <<kittivars, netvars, drivevars>>

InitGtOnly == InitGt /\ KittiIdle /\ NetIdle /\ DriveIdle

SpecGt == InitGtOnly /\ [][NextGt]_vars

\* forward calls on a feature network
NextNet ==
    \/ \E c \in 1..MaxChan : \E hw \in ImageSizes : \E x0, x1 \in Tensors(c, hw[1], hw[2]) :
          Forward(x0, x1) /\ UNCHANGED <<kittivars, gtvars, drivevars, buildvars>>
    \/ ForwardReturn /\ UNCHANGED <<kittivars, gtvars, drivevars, buildvars>>

InitNetOnly == InitNet /\ KittiIdle /\ GtIdle /\ DriveIdle

SpecNet == InitNetOnly /\ [][NextNet]_vars

\* the construction of a feature network
NextBuild ==
    \/ BuildEncoders /\ UNCHANGED <<kittivars, gtvars, drivevars>>
    \/ CalcOutputShape /\ UNCHANGED <<kittivars, gtvars, drivevars>>

InitBuildOnly == InitBuild /\ KittiIdle /\ GtIdle /\ DriveIdle

SpecBuild == InitBuildOnly /\ [][NextBuild]_vars

\* the construction of one drive
NextDrive ==
    \/ GetFileLists /\ UNCHANGED <<kittivars, gtvars, netvars>>
    \/ LoadTimestamps /\ UNCHANGED <<kittivars, gtvars, netvars>>

InitDriveOnly == InitDrive /\ KittiIdle /\ GtIdle /\ NetIdle

SpecDrive == InitDriveOnly /\ [][NextDrive]_vars

----------------------------------------------------------------------------
(* Two __getitem__ calls on one Kitti instance, from two threads of the caller. *)
(* Each call has its own locals; self.images is the instance's one buffer.      *)

Callers == {"A", "B"}

\* a caller outside __getitem__
IdleCall ==
    [pc |-> "idle", num_drive |-> -1, indices |-> <<>>, velo_timespamps |-> <<>>,
     combinations |-> <<>>, k |-> 0, i |-> 0, threads |-> <<>>,
     images_0 |-> <<>>, images_1 |-> <<>>, result |-> NoResult]

\* lines 237-276 of caller t: resolve the index, choose the window, read its
\* timestamps, list the pairs
GetItemOf(t, ix) ==
    /\ calls[t].pc = "idle"
    /\ LET r == Resolve(bins, ix)
           len_ds == length_each_drive[r.num_drive + 1]
           win == Window(len_ds, seq_size, r.idx)
           done(res) == [IdleCall EXCEPT !.pc = "done", !.result = res]
       IN  calls' = [calls EXCEPT ![t] =
              IF r.idx < 0 \/ r.num_drive < 0
              THEN done([kind |-> "return", value |-> None])
              ELSE IF WindowRaises(len_ds, seq_size, r.idx)
              THEN done([kind |-> "raise", exc |-> "Exception"])
              ELSE IF StampsRaise(r.num_drive, win)
              THEN done([kind |-> "raise", exc |-> "IndexError"])
              ELSE [IdleCall EXCEPT !.pc = "check", !.num_drive = r.num_drive,
                                    !.indices = win,
                                    !.velo_timespamps = WindowStamps(r.num_drive, win),
                                    !.combinations = Combinations(seq_size)]]
    /\ UNCHANGED <<gtvars, netvars, drivevars, cfgvars, localvars, images>>

\* lines 278-289 of caller t: one turn of the validity loop
CheckPairOf(t) ==
    /\ calls[t].pc = "check"
    /\ calls[t].k < Len(calls[t].combinations)
    /\ calls' = [calls EXCEPT ![t] =
          IF Len(PairIdxs(@.num_drive, @.velo_timespamps, @.combinations[@.k + 1])) = 0
          THEN [IdleCall EXCEPT !.pc = "done",
                                !.result = [kind |-> "return", value |-> [valid |-> FALSE]]]
          ELSE [@ EXCEPT !.k = @ + 1]]
    /\ UNCHANGED <<gtvars, netvars, drivevars, cfgvars, localvars, images>>

\* line 291 and 212 of caller t: the validity loop is over, load_images begins
LoadImagesOf(t) ==
    /\ calls[t].pc = "check"
    /\ calls[t].k = Len(calls[t].combinations)
    /\ calls' = [calls EXCEPT ![t].pc = "start", ![t].i = 0,
                              ![t].threads = [s \in 1..seq_size |-> "None"]]
    /\ UNCHANGED <<gtvars, netvars, drivevars, cfgvars, localvars, images>>

\* lines 214-219 of caller t: one turn of the start loop
StartThreadOf(t) ==
    /\ calls[t].pc = "start"
    /\ calls[t].i < seq_size
    /\ calls' = [calls EXCEPT ![t].threads[calls[t].i + 1] = "running",
                              ![t].i = @ + 1]
    /\ UNCHANGED <<gtvars, netvars, drivevars, cfgvars, localvars, images>>

\* the start loop of caller t is over, its join loop begins
StartDoneOf(t) ==
    /\ calls[t].pc = "start"
    /\ calls[t].i = seq_size
    /\ calls' = [calls EXCEPT ![t].pc = "join", ![t].i = 0]
    /\ UNCHANGED <<gtvars, netvars, drivevars, cfgvars, localvars, images>>

\* lines 224-228: the thread of slot s of caller t loads its image and stores it
LoadImageOf(t, s) ==
    /\ s \in 1..Len(calls[t].threads)
    /\ calls[t].threads[s] = "running"
    /\ images' = [images EXCEPT ![s] = LoadedImage(calls[t].num_drive, calls[t].indices[s])]
    /\ calls' = [calls EXCEPT ![t].threads[s] = "done"]
    /\ UNCHANGED <<gtvars, netvars, drivevars, cfgvars, localvars>>

\* lines 221-222 of caller t: one turn of the join loop
JoinThreadOf(t) ==
    /\ calls[t].pc = "join"
    /\ calls[t].i < seq_size
    /\ calls[t].threads[calls[t].i + 1] = "done"
    /\ calls' = [calls EXCEPT ![t].i = @ + 1]
    /\ UNCHANGED <<gtvars, netvars, drivevars, cfgvars, localvars, images>>

\* load_images of caller t returns; lines 292-296
JoinDoneOf(t) ==
    /\ calls[t].pc = "join"
    /\ calls[t].i = seq_size
    /\ calls' = [calls EXCEPT ![t].pc = "assemble", ![t].k = 0]
    /\ UNCHANGED <<gtvars, netvars, drivevars, cfgvars, localvars, images>>

\* lines 299-302 of caller t: a turn of the assembly loop begins and reads the slot
\* of the pair's first frame from the buffer
AssembleFirstOf(t) ==
    /\ calls[t].pc = "assemble"
    /\ calls[t].k < Len(calls[t].combinations)
    /\ Len(calls[t].images_0) = calls[t].k
    /\ LET combi == calls[t].combinations[calls[t].k + 1]
       IN  calls' = [calls EXCEPT ![t].images_0 = Append(@, images[combi[1] + 1])]
    /\ UNCHANGED <<gtvars, netvars, drivevars, cfgvars, localvars, images>>

\* lines 303-316 of caller t: the turn reads the slot of the pair's second frame
\* and ends (the IMU samples and the ground truth are put together in AssembleOf)
AssembleSecondOf(t) ==
    /\ calls[t].pc = "assemble"
    /\ calls[t].k < Len(calls[t].combinations)
    /\ Len(calls[t].images_0) = calls[t].k + 1
    /\ LET combi == calls[t].combinations[calls[t].k + 1]
       IN  calls' = [calls EXCEPT ![t].images_1 = Append(@, images[combi[2] + 1]),
                                  ![t].k = @ + 1]
    /\ UNCHANGED <<gtvars, netvars, drivevars, cfgvars, localvars, images>>

\* lines 320-328 of caller t: the sample, given to the transform when there is one
AssembleOf(t) ==
    /\ calls[t].pc = "assemble"
    /\ calls[t].k = Len(calls[t].combinations)
    /\ LET cl == calls[t]
           n == Len(cl.combinations)
           idxs(c) == PairIdxs(cl.num_drive, cl.velo_timespamps, cl.combinations[c])
           data == [valid |-> TRUE,
                    images |-> <<cl.images_0, cl.images_1>>,
                    imu |-> [c \in 1..n |->
                               [q \in 1..Len(idxs(c)) |-> ImuValues(cl.num_drive, idxs(c)[q])]],
                    ground_truth |-> [c \in 1..n |->
                               CalcGtFromOxts(LoadOxtsLazy(cl.num_drive, idxs(c)))],
                    combinations |-> cl.combinations]
       IN  calls' = [calls EXCEPT
                       ![t].pc = "done",
                       ![t].result =
                           [kind |-> "return",
                            value |-> IF transform # "None" THEN Transform(data)
                                      ELSE data]]
    /\ UNCHANGED <<gtvars, netvars, drivevars, cfgvars, localvars, images>>

\* caller t takes its result
ReturnOf(t) ==
    /\ calls[t].pc = "done"
    /\ calls' = [calls EXCEPT ![t] = IdleCall]
    /\ UNCHANGED <<gtvars, netvars, drivevars, cfgvars, localvars, images>>

\* The state after Kitti.__init__, two callers about to use the dataset; every drive
\* has an IMU sample at the time of every scan
InitOverlap ==
    \E lens \in DriveLists, S \in 1..MaxSeq :
        /\ transform \in Transforms
        /\ seq_size = S
        /\ length_each_drive = lens
        /\ timestamps_velo = [d \in 1..Len(lens) |-> VeloStamps(lens[d])]
        /\ timestamps_imu = [d \in 1..Len(lens) |-> ImuStamps(lens[d], lens[d])]
        /\ bins = BuildBins(lens)
        /\ length = TotalLength(BuildBins(lens))
        /\ images = [s \in 1..S |-> None]
        /\ pc = "idle"
        /\ index = 0 /\ idx = -1 /\ num_drive = -1
        /\ indices = <<>> /\ velo_timespamps = <<>> /\ combinations = <<>>
        /\ k = 0 /\ i = 0
        /\ threads = <<>>
        /\ result = NoResult
        /\ images_at_call = [s \in 1..S |-> None]
        /\ load_calls = 0
        /\ first_done = -1
        /\ checked = <<>>
        /\ calls = [t \in Callers |-> IdleCall]
        /\ GtIdle /\ NetIdle /\ DriveIdle

NextOverlap ==
    \/ \E t \in Callers : \E ix \in CallIndices : GetItemOf(t, ix)
    \/ \E t \in Callers : CheckPairOf(t)
    \/ \E t \in Callers : LoadImagesOf(t)
    \/ \E t \in Callers : StartThreadOf(t)
    \/ \E t \in Callers : StartDoneOf(t)
    \/ \E t \in Callers : \E s \in 1..MaxSeq : LoadImageOf(t, s)
    \/ \E t \in Callers : JoinThreadOf(t)
    \/ \E t \in Callers : JoinDoneOf(t)
    \/ \E t \in Callers : AssembleFirstOf(t)
    \/ \E t \in Callers : AssembleSecondOf(t)
    \/ \E t \in Callers : AssembleOf(t)
    \/ \E t \in Callers : ReturnOf(t)

\* __getitem__ calls of two threads on the same dataset, overlapping or not
SpecOverlap == InitOverlap /\ [][NextOverlap]_vars

----------------------------------------------------------------------------
(* Vocabulary of the properties, stated on the data and not through the    *)
(* operators above                                                         *)

\* the call has chosen its window and is past line 276
InCall == pc \in {"check", "start", "join", "assemble"}

\* the call has returned a valid sample
\* the dict of line 320 of a call that has returned: the value returned, or the one
\* the transform was given
SampleDict ==
    IF "transformed" \in DOMAIN result.value THEN result.value.transformed
    ELSE result.value

ValidSample ==
    /\ pc = "done"
    /\ result.kind = "return"
    /\ result.value # None
    /\ SampleDict.valid

\* the call has returned the invalid marker
InvalidSample ==
    /\ pc = "done"
    /\ result = [kind |-> "return", value |-> [valid |-> FALSE]]

\* the bins that contain a global index
BinsOf(g) == {d \in 1..Len(bins) : bins[d][1] <= g /\ g <= bins[d][2]}

\* the window-relative pairs a < b
Pairs == {ab \in (0..seq_size - 1) \X (0..seq_size - 1) : ab[1] < ab[2]}

\* some IMU sample of drive d has its timestamp in [ta, tb)
HasImu(d, ta, tb) ==
    \E p \in 1..Len(timestamps_imu[d + 1]) :
        /\ ta <= timestamps_imu[d + 1][p]
        /\ timestamps_imu[d + 1][p] < tb

\* every pair of the window has an IMU sample
AllPairsCovered ==
    \A ab \in Pairs :
        HasImu(num_drive, velo_timespamps[ab[1] + 1], velo_timespamps[ab[2] + 1])

\* the channel-selected image of frame f of drive d
ImageOfFrame(d, f) ==
    [pixels |-> [c \in 1..Len(channels) |->
                    [drive |-> d, frame |-> f, channel |-> channels[c]]]]

----------------------------------------------------------------------------
(* C1: after construction the bins are contiguous and non-overlapping: the *)
(* first starts at 0, each starts one past the end of the one before, bin  *)
(* d has exactly len(drive d) indices, the total length is one past the    *)
(* last bin's end; every global index in [0, length) lies in exactly one   *)
(* bin and the resolution loop yields that bin and index - bin start.      *)
C1_BinsPartition ==
    /\ Len(bins) = Len(length_each_drive)
    /\ bins[1][1] = 0
    /\ \A d \in 1..Len(bins) - 1 : bins[d][2] + 1 = bins[d + 1][1]
    /\ \A d \in 1..Len(bins) : bins[d][2] - bins[d][1] + 1 = length_each_drive[d]
    /\ length = bins[Len(bins)][2] + 1
    /\ \A g \in 0..length - 1 :
          /\ Cardinality(BinsOf(g)) = 1
          /\ \A d \in BinsOf(g) :
                Resolve(bins, g) = [idx |-> g - bins[d][1], num_drive |-> d - 1]
    /\ (pc # "idle" /\ index \in 0..length - 1) =>
          /\ num_drive + 1 \in BinsOf(index)
          /\ idx = index - bins[num_drive + 1][1]

\* drives of 3 then 2 frames: bins [0,2],[3,4]; index 4 is local index 1 of drive 1
C1_Witness ==
    /\ length_each_drive = <<3, 2>>
    /\ bins = <<<<0, 2>>, <<3, 4>>>>
    /\ pc # "idle"
    /\ index = 4
    /\ num_drive = 1
    /\ idx = 1

(* C2: the window chosen by the call is a run of seq_size consecutive      *)
(* local indices, all within [0, len(drive)); for the drive's last index   *)
(* it is [L - S, L).                                                       *)
C2_WindowInBounds ==
    InCall =>
        LET L == length_each_drive[num_drive + 1]
        IN  /\ Len(indices) = seq_size
            /\ \A p \in 1..Len(indices) - 1 : indices[p + 1] = indices[p] + 1
            /\ \A p \in 1..Len(indices) : 0 <= indices[p] /\ indices[p] < L
            /\ (idx = L - 1) => indices = [p \in 1..seq_size |-> L - seq_size + p - 1]

(* C3: a window with a pair that has no IMU timestamp in [t_a, t_b) makes  *)
(* the call return exactly the marker {valid: false}, with no thread       *)
(* started, no image loaded and the buffer untouched during the call;      *)
(* image loading is under way only when every pair has an IMU sample.      *)
C3_InvalidBeforeLoading ==
    /\ (pc \in {"start", "join", "assemble"} \/ load_calls > 0 \/ ValidSample)
          => AllPairsCovered
    /\ (pc = "check" \/ InvalidSample) =>
          /\ \A s \in 1..Len(threads) : threads[s] = "None"
          /\ load_calls = 0
          /\ images = images_at_call
    /\ (pc = "done" /\ result.kind = "return" /\ result.value # None /\ ~AllPairsCovered)
          => result = [kind |-> "return", value |-> [valid |-> FALSE]]

\* the third pair of a window of 3 has no IMU sample, the two before have; the
\* buffer holds the images of an earlier call and is left as it was
C3_Witness ==
    /\ InvalidSample
    /\ seq_size = 3
    /\ k = 2
    /\ \A s \in 1..seq_size : images[s] # None
    /\ images = images_at_call

(* C4: load_images starts one thread per window position, returns only     *)
(* after all of them have ended, and on return slot s of the buffer holds  *)
(* the channel-selected image of frame indices[s], in whatever order the   *)
(* threads ran; a thread writes its own slot only.                         *)
C4_LoadImagesJoinsInOrder ==
    /\ pc \in {"join", "assemble"} =>
          /\ Len(threads) = seq_size
          /\ \A s \in 1..seq_size : threads[s] # "None"
    /\ pc \in {"start", "join", "assemble"} =>
          \A s \in 1..seq_size :
              threads[s] \in {"None", "running"} => images[s] = images_at_call[s]
    /\ pc = "assemble" =>
          /\ load_calls = seq_size
          /\ \A s \in 1..seq_size :
                /\ threads[s] = "done"
                /\ images[s] = ImageOfFrame(num_drive, indices[s])

\* load_images has returned; the thread of slot 2, started last, ended first, and
\* every slot's image of the call before has been replaced
C4_Witness ==
    /\ pc = "assemble"
    /\ seq_size = 3
    /\ first_done = 2
    /\ \A s \in 1..seq_size : images_at_call[s] # None /\ images_at_call[s] # images[s]

(* C5: when the load of a frame fails in its thread, the failure reaches   *)
(* the caller: the call raises, it does not return a sample.               *)
C5_LoadFailurePropagates ==
    (pc = "done" /\ \E s \in 1..Len(threads) : threads[s] = "failed")
        => result.kind = "raise"

(* C6: a global index that no bin contains makes the call raise            *)
(* IndexError; it returns no value.                                        *)
C6_OutsideIndexRaises ==
    (pc = "done" /\ BinsOf(index) = {})
        => result = [kind |-> "raise", exc |-> "IndexError"]

(* C7: the call lists exactly S*(S-1)/2 distinct pairs (a, b), a < b < S,  *)
(* ordered by b then a; a valid sample returns that list as                *)
(* 'combinations', and entry c of images[0] / images[1] is the image of    *)
(* the window's frame a_c / b_c.                                           *)
C7_PairsAndImages ==
    /\ InCall =>
          /\ 2 * Len(combinations) = seq_size * (seq_size - 1)
          /\ {combinations[c] : c \in 1..Len(combinations)} = Pairs
          /\ \A c \in 1..Len(combinations) - 1 :
                \/ combinations[c][2] < combinations[c + 1][2]
                \/ /\ combinations[c][2] = combinations[c + 1][2]
                   /\ combinations[c][1] < combinations[c + 1][1]
    /\ ValidSample =>
          /\ SampleDict.combinations = combinations
          /\ Len(SampleDict.images[1]) = Len(combinations)
          /\ Len(SampleDict.images[2]) = Len(combinations)
          /\ \A c \in 1..Len(combinations) :
                /\ SampleDict.images[1][c] =
                       ImageOfFrame(num_drive, indices[combinations[c][1] + 1])
                /\ SampleDict.images[2][c] =
                       ImageOfFrame(num_drive, indices[combinations[c][2] + 1])

\* a valid sample of the window [0,1,2]: pairs (0,1),(0,2),(1,2)
C7_Witness ==
    /\ ValidSample
    /\ indices = <<0, 1, 2>>
    /\ SampleDict.combinations = <<<<0, 1>>, <<0, 2>>, <<1, 2>>>>
    /\ SampleDict.images[1][3] = ImageOfFrame(num_drive, 1)
    /\ SampleDict.images[2][3] = ImageOfFrame(num_drive, 2)

(* C8: calc_gt_from_oxts on a non-empty list of samples returns one        *)
(* transform per sample, T_rel[n] = inverse(T_world[0]) * T_world[n], that *)
(* is T_world[0] * T_rel[n] = T_world[n]; the first is the identity; and   *)
(* left-composing every world pose with one rigid transform leaves the     *)
(* result as it was.                                                       *)
C8_RelativeToFirstPose ==
    gt_pc = "done" =>
        /\ Len(gt_s) = Len(oxts)
        /\ gt_s[1] = Identity4
        /\ \A n \in 1..Len(oxts) : MatMul(oxts[1].T_w_imu, gt_s[n]) = oxts[n].T_w_imu
        /\ gt_before # <<>> => gt_s = gt_before

\* two samples whose first pose is turned and shifted, moved by a turned and shifted
\* pose and computed again
C8_Witness ==
    /\ gt_pc = "done"
    /\ Len(oxts) = 2
    /\ gt_before # <<>>
    /\ gt_s[2] # Identity4
    /\ gt_s[2] # oxts[2].T_w_imu
    /\ oxts[1].T_w_imu[1][1] = 0
    /\ oxts[1].T_w_imu[1][4] # 0

(* C9: in every feature network forward([x0, x1]) gives encoder1 the first *)
(* input tensor and encoder2 the second, each folded to [b, t*c, h, w].    *)
C9_Encoder2GetsSecondInput ==
    net_pc = "encoded" =>
        /\ enc_in.encoder1.data = net_x[1].data
        /\ enc_in.encoder2.data = net_x[2].data

(* C10: after the construction of a drive, with or without a frame subset, *)
(* timestamps_velo has one entry per file of velo_files, and entry p is    *)
(* the timestamp of velo_files[p].                                         *)
C10_StampsMatchFiles ==
    drive_pc = "ready" =>
        /\ Len(drive_stamps_velo) = Len(velo_files)
        /\ \A p \in 1..Len(velo_files) :
              1000 * drive_stamps_velo[p] \in
                  (velo_files[p] * 1500 - 999)..(velo_files[p] * 1500)

(* C11: in a valid sample, imu[c] of every pair c = (a, b) holds one        *)
(* reading for exactly the IMU samples whose timestamp ts satisfies        *)
(* t_a <= ts < t_b, in timestamp order; it is not empty; ground_truth[c]   *)
(* has the same length and is computed from those samples (relative to the *)
(* first of them); and the samples are those the validity loop found.      *)
C11_ImuOfPairs ==
    ValidSample =>
        \A c \in 1..Len(combinations) :
            LET ts == timestamps_imu[num_drive + 1]
                ta == velo_timespamps[combinations[c][1] + 1]
                tb == velo_timespamps[combinations[c][2] + 1]
                M == {p \in 0..Len(ts) - 1 : ta <= ts[p + 1] /\ ts[p + 1] < tb}
                imu == SampleDict.imu[c]
                gt == SampleDict.ground_truth[c]
                pos(q) == imu[q][1][3]
            IN  /\ Len(imu) = Cardinality(M)
                /\ Len(imu) >= 1
                /\ \A q \in 1..Len(imu) :
                      /\ pos(q) \in M
                      /\ imu[q] = << <<"ax", num_drive, pos(q)>>, <<"ay", num_drive, pos(q)>>,
                                     <<"az", num_drive, pos(q)>>, <<"wx", num_drive, pos(q)>>,
                                     <<"wy", num_drive, pos(q)>>, <<"wz", num_drive, pos(q)>> >>
                /\ \A q \in 1..Len(imu) - 1 :
                      /\ pos(q) < pos(q + 1)
                      /\ ts[pos(q) + 1] <= ts[pos(q + 1) + 1]
                /\ Len(gt) = Len(imu)
                /\ \A q \in 1..Len(gt) :
                      MatMul(OxtsPose(num_drive, pos(1)), gt[q]) = OxtsPose(num_drive, pos(q))
                /\ Len(checked) = Len(combinations)
                /\ checked[c] = [q \in 1..Len(imu) |-> pos(q)]

\* a valid sample of a window of 3 in a drive with an IMU sample at the time of every
\* scan: the pair (0, 2) has the two samples at t_0 and t_1, not the one at t_2
C11_Witness ==
    /\ ValidSample
    /\ seq_size = 3
    /\ Len(timestamps_imu[num_drive + 1]) = 3
    /\ timestamps_imu[num_drive + 1][3] = velo_timespamps[3]
    /\ Len(SampleDict.imu[2]) = 2
    /\ SampleDict.ground_truth[2][2] # Identity4

(* C12: when two __getitem__ calls on the same Kitti instance overlap, each *)
(* call that returns a valid sample returns only the images of its own     *)
(* window: for every pair c = (a, b), images[0][c] and images[1][c] are    *)
(* the images of the call's frames window[a] and window[b].                *)
C12_OwnImagesOnly ==
    \A t \in Callers :
        (/\ calls[t].pc = "done"
         /\ calls[t].result.kind = "return"
         /\ calls[t].result.value # None
         /\ "transformed" \in DOMAIN calls[t].result.value
               \/ calls[t].result.value.valid)
        => LET v == IF "transformed" \in DOMAIN calls[t].result.value
                    THEN calls[t].result.value.transformed
                    ELSE calls[t].result.value
           IN  \A c \in 1..Len(v.combinations) :
                  /\ v.images[1][c] =
                        ImageOfFrame(calls[t].num_drive,
                                     calls[t].indices[v.combinations[c][1] + 1])
                  /\ v.images[2][c] =
                        ImageOfFrame(calls[t].num_drive,
                                     calls[t].indices[v.combinations[c][2] + 1])

(* C13: for every number of stacked timestamps T >= 1 and every input shape *)
(* (c, h, w) the construction completes its probe forward pass: the probe  *)
(* input folded to T*c channels has the channel count the encoders were    *)
(* built for, and output_shape is set to a 2-D shape [1, feature_dim].     *)
C13_ProbeCompletes ==
    /\ net_pc # "raised"
    /\ net_pc = "ready" /\ in_channels > 0 =>
          /\ folded = in_channels
          /\ output_shape # NoShape
          /\ Len(output_shape) = 2
          /\ output_shape[1] = 1

====
